---------------------------- MODULE Spec2Model ----------------------------
(***************************************************************************)
(* A model of the bounded task runner (core/task_queue.py) and of the      *)
(* temporary file store with its reaper (core/file_handler.py).            *)
(*                                                                         *)
(* The runner is driven by an asyncio event loop: coroutines run one at a  *)
(* time and give up control only at an await that really suspends.  Every  *)
(* action below is therefore one uninterrupted run of a coroutine from one *)
(* suspension point to the next.  asyncio.Semaphore is modelled after the  *)
(* CPython 3.11 implementation (locked / acquire / release /               *)
(* _wake_up_next), which the TaskQueue constructs at task_queue.py:23.     *)
(***************************************************************************)
EXTENDS Integers, Sequences, FiniteSets, TLC

(***************************************************************************)
(* Bounds of the model and program constants.                              *)
(***************************************************************************)
NumSubmissions == 5            \* submit / submit_async calls in one run
MAX_CONCURRENT_TASKS == 3      \* task_queue.py:12, the default max_concurrent

FILE_EXPIRY_MINUTES == 10     \* file_handler.py:19, the TTL of a stored file
NumFiles == 2                  \* save_temp_file calls in one run
MaxTime == 12                  \* the clock runs from 0 to MaxTime minutes
MaxGap == 2                    \* longest time between a file's write and its record
MaxSaveTime == 1               \* uploads arrive while the clock is at most this
NumRequests == 2                \* transform requests of one run
MaxQuality == 6                 \* highest JPEG quality searched (95 in the code)
MaxTargetKb == 2                \* largest target_size_kb asked for
MaxInputs == 2                  \* most PDFs given to one merge
MaxPages == 2                   \* most pages of one input PDF
MaxRpm == 2                     \* largest requests_per_minute of the middleware
MaxHandled == 4                 \* requests the middleware sees in one run
MaxClock == 120                 \* the run ends at this time, in seconds
MaxLen == 3                    \* longest upload, in bytes, given to validate_file

Submissions == 1..NumSubmissions
FileIds == 1..NumFiles

VARIABLES
    max_concurrent,   \* TaskQueue.max_concurrent, fixed at construction
    sem_value,        \* TaskQueue.semaphore._value
    sem_waiters,      \* TaskQueue.semaphore._waiters: futures in arrival order
    active_tasks,     \* TaskQueue._active_tasks
    queued_tasks,     \* TaskQueue._queued_tasks
    fut,              \* the future a submission awaits inside acquire()
    must_cancel,      \* Task._must_cancel of the submitting coroutine
    ready,            \* the event loop's FIFO of coroutines to resume
    pc,               \* where each submission's coroutine stands
    submitted,        \* number of submit calls entered so far
    runs,             \* how many times each submission's task was invoked
    started,          \* submissions in the order their tasks started
    task_exit,        \* how each task ended: none / return / raise / cancel
    outcome,          \* what submit delivered to its caller
    now,              \* the wall clock, datetime.now()
    files,            \* FileHandler._files: file id -> TempFile record
    disk,             \* TEMP_DIR: path -> the file's mtime and content
    next_id,          \* the next fresh uuid4
    persisted_at,     \* created_at of every record save_temp_file returned
    caller_deleted,   \* ids a caller passed to delete_temp_file
    swept_after,      \* ids whose expires_at had passed when a sweep ran
    upload,           \* the UploadFile of an upload request: its bytes and position
    allowed_types,    \* the allowed_types the endpoint passes to validate_file
    max_size,         \* the max_size passed to validate_file
    verdict,          \* the ValidationResult validate_file returned
    upc,              \* where the upload request stands
    reaper,           \* where cleanup_task stands: "sleeping" or "dead"
    request,          \* the latest transform request and how its task ended
    response,         \* what the endpoint answered to it
    sizes,            \* compress_to_size: encoded size of the image by quality
    target_size_kb,   \* compress_to_size: the target
    written,          \* compress_to_size: size of the file it wrote, -1 before
    page_counts,      \* merge: the page count of each input PDF, in list order
    order,            \* merge: the order argument (<<>> for None or [])
    merged,           \* merge: how the call ended and the pages it wrote
    requests_per_minute,  \* RateLimitMiddleware.requests_per_minute
    requests,         \* RateLimitMiddleware.requests: times recorded per client
    current_time,     \* time.time(), in seconds
    forwarded,        \* per client, the times of the requests given to call_next
    answer            \* what dispatch did with the latest request

qvars == <<max_concurrent, sem_value, sem_waiters, active_tasks, queued_tasks,
           fut, must_cancel, ready, pc, submitted, runs, started, task_exit,
           outcome>>

svars == <<now, files, disk, next_id, persisted_at, caller_deleted,
           swept_after>>

uvars == <<upload, allowed_types, max_size, verdict, upc>>

rvars == <<reaper>>

avars == <<request, response>>

cvars == <<sizes, target_size_kb, written>>

\* the state of the services and of the middleware
mvars == <<page_counts, order, merged>>

lvars == <<requests_per_minute, requests, current_time, forwarded, answer>>

xvars == <<cvars, mvars, lvars>>

vars == <<qvars, svars, uvars, rvars, avars, xvars>>

\* what an action of the runner, of the store, of an upload leaves alone
not_q == <<svars, uvars, rvars, avars, xvars>>
not_s == <<qvars, uvars, rvars, avars, xvars>>
not_u == <<qvars, rvars, avars, xvars>>

(***************************************************************************)
(* The runner's state as one value, so that the straight-line code of a    *)
(* handler can be written as a composition of updates.                     *)
(***************************************************************************)
Q == [value |-> sem_value, waiters |-> sem_waiters,
      active_tasks |-> active_tasks, queued_tasks |-> queued_tasks,
      fut |-> fut, must_cancel |-> must_cancel, ready |-> ready, pc |-> pc,
      runs |-> runs, started |-> started, task_exit |-> task_exit,
      outcome |-> outcome]

Commit(q) ==
    /\ sem_value' = q.value
    /\ sem_waiters' = q.waiters
    /\ active_tasks' = q.active_tasks
    /\ queued_tasks' = q.queued_tasks
    /\ fut' = q.fut
    /\ must_cancel' = q.must_cancel
    /\ ready' = q.ready
    /\ pc' = q.pc
    /\ runs' = q.runs
    /\ started' = q.started
    /\ task_exit' = q.task_exit
    /\ outcome' = q.outcome

Min(S) == CHOOSE x \in S : \A y \in S : x <= y

RemoveFirst(seq, x) ==
    LET idx == {i \in 1..Len(seq) : seq[i] = x}
    IN IF idx = {} THEN seq
       ELSE LET k == Min(idx)
            IN SubSeq(seq, 1, k - 1) \o SubSeq(seq, k + 1, Len(seq))

(***************************************************************************)
(* asyncio.Semaphore                                                       *)
(***************************************************************************)
\* A locked() that looks at the counter only, as before CPython 3.11: an
\* arrival takes a free slot although a woken waiter has not resumed yet.
locked_value_only(q) == q.value = 0

\* Semaphore.locked(): no free slot, or a waiter that is not cancelled.
locked(q) ==
    \/ q.value = 0
    \/ \E i \in 1..Len(q.waiters) : q.fut[q.waiters[i]] # "cancelled"

\* Semaphore._wake_up_next(): hand the slot to the first waiter not yet done;
\* set_result schedules that waiter's coroutine on the loop.
wake_up_next(q) ==
    LET pend == {i \in 1..Len(q.waiters) : q.fut[q.waiters[i]] = "pending"}
    IN IF pend = {} THEN q
       ELSE LET s == q.waiters[Min(pend)]
            IN [q EXCEPT !.value = @ - 1,
                         !.fut[s] = "result",
                         !.ready = Append(@, s)]

\* Semaphore.release()
release(q) == wake_up_next([q EXCEPT !.value = @ + 1])

(***************************************************************************)
(* TaskQueue.submit / submit_async                                         *)
(***************************************************************************)
\* line 47 / 67: the submission is counted as queued before any wait
enqueue(q) == [q EXCEPT !.queued_tasks = @ + 1]

\* an admission that counts the task as active and leaves it queued
admit_keeps_queued(q) == [q EXCEPT !.active_tasks = @ + 1]

\* lines 50-51 / 70-71: the slot is held; queued -> active with no await between
admit(q) == [q EXCEPT !.queued_tasks = @ - 1, !.active_tasks = @ + 1]

\* lines 53-56 / 73: the task is invoked
invoke(q, s) == [q EXCEPT !.runs[s] = @ + 1, !.started = Append(@, s)]

\* A submit without its "finally": the slot is released, active_count stays.
leave_slot_keeps_count(q) == release(q)

\* lines 57-58 / 74-75 and the exit of "async with": active_count goes down,
\* then the slot is released
leave_slot(q) == release([q EXCEPT !.active_tasks = @ - 1])

\* lines 59-61 / 76-78: "except Exception" catches what the task raised, not
\* CancelledError (a BaseException); it decrements queued again and re-raises
on_exception(q, how) ==
    IF how = "raise" THEN [q EXCEPT !.queued_tasks = @ - 1] ELSE q

\* A submit that swallows the task's error and returns None.
delivered_swallowed(s, how) ==
    CASE how = "return" -> <<"return", s>>
      [] how = "raise"  -> <<"return", 0>>
      [] OTHER          -> <<"cancelled", 0>>

\* what the caller of submit gets for the way the task ended
delivered(s, how) ==
    CASE how = "return" -> <<"return", s>>
      [] how = "raise"  -> <<"raise", s>>
      [] OTHER          -> <<"cancelled", 0>>

final_pc(how) ==
    CASE how = "return" -> "returned"
      [] how = "raise"  -> "raised"
      [] OTHER          -> "cancelled"

\* A submit that keeps the slot when its task raises.
task_ends_keeps_slot(q, s, how) ==
    LET q0 == IF how = "raise" THEN [q EXCEPT !.active_tasks = @ - 1]
              ELSE leave_slot(q)
        q1 == on_exception(q0, how)
    IN [q1 EXCEPT !.task_exit[s] = how,
                  !.outcome[s] = delivered(s, how),
                  !.pc[s] = final_pc(how)]

\* the task of s ends (returns, raises, or is cancelled) while holding a slot
task_ends(q, s, how) ==
    LET q1 == on_exception(leave_slot(q), how)
    IN [q1 EXCEPT !.task_exit[s] = how,
                  !.outcome[s] = delivered(s, how),
                  !.pc[s] = final_pc(how)]

\* the body of "async with self.semaphore" up to the first suspension of the
\* task: how = "suspend" leaves the task awaiting inside the slot
enter_slot(q, s, how) ==
    LET q1 == invoke(admit(q), s)
    IN IF how = "suspend" THEN [q1 EXCEPT !.pc[s] = "running"]
       ELSE task_ends(q1, s, how)

\* an acquire that parks every caller, free slot or not
acquire_always_waits(q, s, how) ==
    [q EXCEPT !.waiters = Append(@, s),
              !.fut[s] = "pending",
              !.pc[s] = "waiting"]

\* Semaphore.acquire() up to its await
acquire_or_wait(q, s, how) ==
    IF ~locked(q)
    THEN enter_slot([q EXCEPT !.value = @ - 1], s, how)
    ELSE [q EXCEPT !.waiters = Append(@, s),
                   !.fut[s] = "pending",
                   !.pc[s] = "waiting"]

\* Semaphore.acquire() after its await, and the rest of submit
resume_acquire(q, s, how) ==
    LET q1 == [q EXCEPT !.waiters = RemoveFirst(@, s),
                        !.ready = Tail(@)]
    IN IF q.fut[s] = "cancelled"
       THEN [q1 EXCEPT !.pc[s] = "cancelled",
                       !.outcome[s] = <<"cancelled", 0>>]
       ELSE IF q.must_cancel[s]
       THEN LET q2 == wake_up_next([q1 EXCEPT !.value = @ + 1])
            IN [q2 EXCEPT !.pc[s] = "cancelled",
                          !.outcome[s] = <<"cancelled", 0>>]
       ELSE enter_slot(IF q1.value > 0 THEN wake_up_next(q1) ELSE q1, s, how)

StartHow == {"suspend", "return", "raise"}
EndHow == {"return", "raise"}

(***************************************************************************)
(* Actions of the runner                                                   *)
(***************************************************************************)
QInitWith(m) ==
    /\ max_concurrent = m
    /\ sem_value = max_concurrent
    /\ sem_waiters = <<>>
    /\ active_tasks = 0
    /\ queued_tasks = 0
    /\ fut = [s \in Submissions |-> "none"]
    /\ must_cancel = [s \in Submissions |-> FALSE]
    /\ ready = <<>>
    /\ pc = [s \in Submissions |-> "new"]
    /\ submitted = 0
    /\ runs = [s \in Submissions |-> 0]
    /\ started = <<>>
    /\ task_exit = [s \in Submissions |-> "none"]
    /\ outcome = [s \in Submissions |-> <<"pending", 0>>]

\* TaskQueue(max_concurrent): any capacity up to the default
QInit == \E m \in 1..MAX_CONCURRENT_TASKS : QInitWith(m)

\* a caller enters submit (or submit_async) and runs to its first suspension
Submit ==
    /\ submitted < NumSubmissions
    /\ \E how \in StartHow :
           Commit(acquire_or_wait(enqueue(Q), submitted + 1, how))
    /\ submitted' = submitted + 1
    /\ UNCHANGED max_concurrent
    /\ UNCHANGED not_q

\* the loop resumes the coroutine at the head of its ready queue
Resume ==
    /\ ready # <<>>
    /\ \E how \in StartHow : Commit(resume_acquire(Q, Head(ready), how))
    /\ UNCHANGED <<max_concurrent, submitted>>
    /\ UNCHANGED not_q

\* the suspended task of s finishes
TaskFinish(s) ==
    /\ pc[s] = "running"
    /\ \E how \in EndHow : Commit(task_ends(Q, s, how))
    /\ UNCHANGED <<max_concurrent, submitted>>
    /\ UNCHANGED not_q

\* the caller's asyncio task is cancelled while its task is suspended in a slot
CancelRunning ==
    /\ \E s \in Submissions :
           /\ pc[s] = "running"
           /\ Commit(task_ends(Q, s, "cancel"))
    /\ UNCHANGED <<max_concurrent, submitted>>
    /\ UNCHANGED not_q

\* the caller's asyncio task is cancelled while it waits for a slot:
\* Task.cancel() cancels the awaited future if it is still pending, otherwise
\* it sets _must_cancel; CancelledError is thrown when the coroutine resumes
CancelWaiting ==
    /\ \E s \in Submissions :
           /\ pc[s] = "waiting"
           /\ fut[s] # "cancelled"
           /\ ~must_cancel[s]
           /\ IF fut[s] = "pending"
              THEN /\ fut' = [fut EXCEPT ![s] = "cancelled"]
                   /\ ready' = Append(ready, s)
                   /\ UNCHANGED must_cancel
              ELSE /\ must_cancel' = [must_cancel EXCEPT ![s] = TRUE]
                   /\ UNCHANGED <<fut, ready>>
    /\ UNCHANGED <<max_concurrent, sem_value, sem_waiters, active_tasks,
                   queued_tasks, pc, submitted, runs, started, task_exit,
                   outcome>>
    /\ UNCHANGED not_q


(***************************************************************************)
(* FileHandler: the temporary file store                                   *)
(***************************************************************************)
Contents == {<<1>>, <<2, 1>>}      \* uploaded byte strings
None == <<>>                       \* Python's None

\* line 122: TEMP_DIR / f"{file_id}{ext}", fixed by the generated id
path_of(id) == <<"temp_files", id>>

\* TempFile.__init__ (lines 47-55) called at time t
TempFile(id, original_name, path, size, mime_type, t) ==
    [id |-> id, original_name |-> original_name, path |-> path,
     size |-> size, mime_type |-> mime_type, created_at |-> t,
     expires_at |-> t + FILE_EXPIRY_MINUTES]

Without(f, k) == [x \in DOMAIN f \ {k} |-> f[x]]

\* a lookup that trusts the index and never looks at the disk
get_temp_file_index_only(F, D, id) ==
    IF id \in DOMAIN F THEN F[id].path ELSE None

\* FileHandler.get_temp_file (lines 138-143)
get_temp_file(F, D, id) ==
    IF id \in DOMAIN F /\ F[id].path \in DOMAIN D THEN F[id].path ELSE None

\* FileHandler.delete_temp_file (lines 149-155): pop the record, unlink the
\* file if it is still there
delete_temp_file(st, id) ==
    IF id \in DOMAIN st.files
    THEN LET p == st.files[id].path
         IN IF p \in DOMAIN st.disk
            THEN [files |-> Without(st.files, id),
                  disk |-> Without(st.disk, p), ret |-> TRUE]
            ELSE [files |-> Without(st.files, id),
                  disk |-> st.disk, ret |-> FALSE]
    ELSE [files |-> st.files, disk |-> st.disk, ret |-> FALSE]

\* lines 160-163: the records whose expires_at is before now
expired_ids(F, t) == {fid \in DOMAIN F : F[fid].expires_at < t}

\* lines 165-166: delete_temp_file for every expired id
RECURSIVE delete_all(_, _)
delete_all(st, ids) ==
    IF ids = {} THEN st
    ELSE LET fid == CHOOSE x \in ids : TRUE
         IN delete_all(delete_temp_file(st, fid), ids \ {fid})

\* lines 169-174: unlink every file of the directory older than the TTL
over_age(D, t) == {p \in DOMAIN D : t - D[p].mtime > FILE_EXPIRY_MINUTES}

\* a directory pass that unlinks nothing
sweep_directory_keeps_all(D, t) == D

sweep_directory(D, t) == [p \in DOMAIN D \ over_age(D, t) |-> D[p]]

\* FileHandler.cleanup_expired (lines 157-176) run at time t
cleanup_expired(st, t) ==
    LET ids == expired_ids(st.files, t)
        st1 == delete_all(st, ids)
    IN [files |-> st1.files,
        disk |-> sweep_directory(st1.disk, t),
        ret |-> Cardinality(ids)]

\* the files a sweep at time t calls unlink on
unlinked_by_sweep(st, t) ==
    over_age(st.disk, t) \cup
        {p \in DOMAIN st.disk :
             \E fid \in expired_ids(st.files, t) : st.files[fid].path = p}

\* what can go wrong in one sweep: the files whose unlink raises, and the
\* over-age files the directory iteration visits before the first of them
Raising(st, t) ==
    {<<bad, before>> \in
         (SUBSET unlinked_by_sweep(st, t)) \X (SUBSET over_age(st.disk, t)) :
             bad \cap before = {}}

\* lines 165-166 when an unlink may raise: the ids are visited in the order
\* of the dict (the order of insertion); delete_temp_file has popped the
\* record when its unlink raises, and the exception ends the loop
RECURSIVE delete_until_raise(_, _, _)
delete_until_raise(st, ids, bad) ==
    IF ids = {} THEN [files |-> st.files, disk |-> st.disk, raised |-> FALSE]
    ELSE LET fid == Min(ids)
             p == st.files[fid].path
         IN IF p \in DOMAIN st.disk /\ p \in bad
            THEN [files |-> Without(st.files, fid), disk |-> st.disk,
                  raised |-> TRUE]
            ELSE delete_until_raise(delete_temp_file(st, fid), ids \ {fid}, bad)

\* lines 169-174 when an unlink may raise: the files visited before the
\* first raising one are gone, the rest stay
sweep_directory_until_raise(D, t, bad, before) ==
    IF over_age(D, t) \cap bad = {}
    THEN [disk |-> sweep_directory(D, t), raised |-> FALSE]
    ELSE [disk |-> [p \in DOMAIN D \ (over_age(D, t) \cap before) |-> D[p]],
          raised |-> TRUE]

\* FileHandler.cleanup_expired (lines 157-176) run at time t in a directory
\* where the unlink of the paths in bad raises: nothing catches the exception
cleanup_expired_raising(st, t, bad, before) ==
    LET ids == expired_ids(st.files, t)
        st1 == delete_until_raise(st, ids, bad)
        d2 == sweep_directory_until_raise(st1.disk, t, bad, before)
    IN IF st1.raised
       THEN [files |-> st1.files, disk |-> st1.disk, raised |-> TRUE, ret |-> 0]
       ELSE [files |-> st1.files, disk |-> d2.disk, raised |-> d2.raised,
             ret |-> IF d2.raised THEN 0 ELSE Cardinality(ids)]

\* a file an earlier run of the process left in TEMP_DIR long ago
Leftover ==
    <<"temp_files", 0>> :> [mtime |-> 0 - FILE_EXPIRY_MINUTES - 1, data |-> <<1>>]

(***************************************************************************)
(* Uploads: UploadFile, detect_file_type, validate_file, save_temp_file    *)
(***************************************************************************)
Bytes == 0..3
RECURSIVE SeqsUpTo(_)
SeqsUpTo(n) ==
    IF n = 0 THEN {<<>>}
    ELSE LET shorter == SeqsUpTo(n - 1)
         IN shorter \cup {Append(c, b) : c \in {x \in shorter : Len(x) = n - 1},
                                         b \in Bytes}

\* the byte strings an upload request may carry
Uploads == SeqsUpTo(MaxLen)

NoneStr == "None"                  \* None where Python expects a string

\* api/pdf.py:16 and api/image.py:16-19
ALLOWED_PDF_TYPES == {"application/pdf"}
ALLOWED_IMAGE_TYPES ==
    {"image/jpeg", "image/png", "image/webp", "image/gif", "image/bmp"}

\* what the client declares about an upload: a file name (or none) and a
\* content-type header
Filenames == {"shot.png", "shot.jpg", NoneStr}
ContentTypes == {"image/png", "application/pdf"}

\* a fresh UploadFile: the bytes, the read position, the client's claims
UploadFile(data, filename, content_type) ==
    [data |-> data, pos |-> 0, filename |-> filename,
     content_type |-> content_type]

\* UploadFile.read(): the bytes from the current position to the end; the
\* position moves to the end
read(u) ==
    [content |-> SubSeq(u.data, u.pos + 1, Len(u.data)),
     upload |-> [u EXCEPT !.pos = Len(u.data)]]

\* a seek that leaves the position where the read put it
seek_ignored(u, k) == u

\* UploadFile.seek(k)
seek(u, k) == [u EXCEPT !.pos = k]

\* FileHandler.detect_file_type (lines 64-70): libmagic names the type from
\* the leading bytes (here the first byte is the signature); None when
\* libmagic raises
detect_file_type(content) ==
    IF content = <<>> THEN "application/x-empty"
    ELSE CASE content[1] = 1 -> "image/png"
           [] content[1] = 2 -> "application/pdf"
           [] content[1] = 3 -> "text/plain"
           [] OTHER          -> NoneStr

\* ValidationResult.__init__ (lines 38-42)
ValidationResult(valid, detected_type, error_message) ==
    [valid |-> valid, detected_type |-> detected_type,
     error_message |-> error_message]

\* validate_file refusing content of exactly the limit
validate_file_at_limit(u, allowed, limit) ==
    LET r == read(u)
        content == r.content
        u1 == seek(r.upload, 0)
        detected_type == detect_file_type(content)
    IN [upload |-> u1,
        result |->
            IF Len(content) >= limit
            THEN ValidationResult(FALSE, NoneStr, "TooLarge")
            ELSE IF detected_type = NoneStr
            THEN ValidationResult(FALSE, NoneStr, "UnknownType")
            ELSE IF detected_type \notin allowed
            THEN ValidationResult(FALSE, detected_type, "DisallowedType")
            ELSE ValidationResult(TRUE, detected_type, NoneStr)]

\* FileHandler.validate_file (lines 72-106): the verdict, and the upload as
\* the call leaves it
validate_file(u, allowed, limit) ==
    LET r == read(u)
        content == r.content
        u1 == seek(r.upload, 0)
        detected_type == detect_file_type(content)
    IN [upload |-> u1,
        result |->
            IF Len(content) > limit
            THEN ValidationResult(FALSE, NoneStr, "TooLarge")
            ELSE IF detected_type = NoneStr
            THEN ValidationResult(FALSE, NoneStr, "UnknownType")
            ELSE IF detected_type \notin allowed
            THEN ValidationResult(FALSE, detected_type, "DisallowedType")
            ELSE ValidationResult(TRUE, detected_type, NoneStr)]

\* a save that records the type the file name suggests
save_temp_file_trusts_name(st, u, id, tw, tr) ==
    LET content == read(u).content
        p == path_of(id)
        mime_type == CASE u.filename = "shot.png" -> "image/png"
                       [] u.filename = "shot.jpg" -> "image/jpeg"
                       [] OTHER -> "application/octet-stream"
        original_name == IF u.filename = NoneStr THEN "unknown" ELSE u.filename
    IN [files |-> st.files @@
                      (id :> TempFile(id, original_name, p, Len(content),
                                      mime_type, tr)),
        disk |-> st.disk @@ (p :> [mtime |-> tw, data |-> content]),
        ret |-> id]

\* FileHandler.save_temp_file (lines 108-136) with id the fresh uuid4: the
\* bytes read are written at time tw, the record is built at time tr
save_temp_file(st, u, id, tw, tr) ==
    LET content == read(u).content
        p == path_of(id)
        mime_type == IF detect_file_type(content) = NoneStr
                     THEN "application/octet-stream"
                     ELSE detect_file_type(content)
        original_name == IF u.filename = NoneStr THEN "unknown" ELSE u.filename
    IN [files |-> st.files @@
                      (id :> TempFile(id, original_name, p, Len(content),
                                      mime_type, tr)),
        disk |-> st.disk @@ (p :> [mtime |-> tw, data |-> content]),
        ret |-> id]

Store == [files |-> files, disk |-> disk, ret |-> FALSE]

(***************************************************************************)
(* Transform endpoints of api/image.py and api/pdf.py                      *)
(***************************************************************************)
Endpoints == {"image.compress", "pdf.compress", "pdf.merge"}

\* the file ids a request can name: one id, or a list for merge
RequestIds(kind) ==
    IF kind = "pdf.merge" THEN FileIds \X FileIds
    ELSE {<<id>> : id \in FileIds}

\* str(e) of what a task raised: an exception built without arguments has
\* the empty string
Messages == {"", "pypdf not installed"}

\* ProcessResponse (api/image.py:104-107, api/pdf.py:44-47)
ProcessResponse(success, download_url, error_message) ==
    [type |-> "ProcessResponse", success |-> success,
     download_url |-> download_url, error_message |-> error_message]

\* the endpoint did not return: the exception reached the framework
Unhandled ==
    [type |-> "exception", success |-> FALSE, download_url |-> None,
     error_message |-> NoneStr]

\* where the service writes its result (image_service.py:25,
\* pdf_service.py:50, pdf_service.py:91)
output_path(kind, paths) ==
    CASE kind = "image.compress" -> Append(paths[1], "_compressed.jpg")
      [] kind = "pdf.compress"   -> Append(paths[1], "_compressed.pdf")
      [] OTHER                   -> <<"temp_files", 0, "merged.pdf">>

\* the service saves at time t what it made of the inputs ids, over whatever
\* was at that path
write_output(D, p, ids, t) ==
    [x \in DOMAIN D \cup {p} |->
         IF x = p THEN [mtime |-> t, data |-> <<"made of", ids>>] ELSE D[x]]

\* an endpoint that hands the task to the runner before it looks at what
\* the ids resolved to
transform_submits_first(kind, ids, how, msg, q, st, s, t) ==
    LET paths == [i \in DOMAIN ids |-> get_temp_file(st.files, st.disk, ids[i])]
        q1 == acquire_or_wait(enqueue(q), s, how)
    IN IF \E i \in DOMAIN ids : paths[i] = None
       THEN [q |-> q1, disk |-> st.disk, submitted |-> TRUE,
             response |-> ProcessResponse(FALSE, None, "File not found")]
       ELSE [q |-> q1, submitted |-> TRUE,
             disk |-> IF how = "return"
                      THEN write_output(st.disk, output_path(kind, paths), ids, t)
                      ELSE st.disk,
             response |->
                 IF how = "return"
                 THEN ProcessResponse(TRUE, output_path(kind, paths), NoneStr)
                 ELSE IF kind = "image.compress" THEN Unhandled
                 ELSE ProcessResponse(FALSE, None, msg)]

\* compress_image (api/image.py:131-145), compress_pdf (api/pdf.py:80-97),
\* merge_pdfs (api/pdf.py:120-140) as submission s at time t.  The task is
\* an "async def" around a synchronous call of the service: it ends (how)
\* without suspending, with message msg when it raises.  Only the endpoints
\* of api/pdf.py catch what submit raises.
transform(kind, ids, how, msg, q, st, s, t) ==
    LET paths == [i \in DOMAIN ids |-> get_temp_file(st.files, st.disk, ids[i])]
    IN IF \E i \in DOMAIN ids : paths[i] = None
       THEN [q |-> q, disk |-> st.disk, submitted |-> FALSE,
             response |-> ProcessResponse(FALSE, None, "File not found")]
       ELSE [q |-> acquire_or_wait(enqueue(q), s, how), submitted |-> TRUE,
             disk |-> IF how = "return"
                      THEN write_output(st.disk, output_path(kind, paths), ids, t)
                      ELSE st.disk,
             response |->
                 IF how = "return"
                 THEN ProcessResponse(TRUE, output_path(kind, paths), NoneStr)
                 ELSE IF kind = "image.compress" THEN Unhandled
                 ELSE ProcessResponse(FALSE, None, msg)]

\* the store after k uploads of one byte at time 0
RECURSIVE saved(_)
saved(k) ==
    IF k = 0 THEN [files |-> <<>>, disk |-> <<>>, ret |-> 0]
    ELSE save_temp_file(saved(k - 1), UploadFile(<<1>>, "shot.png", "image/png"),
                        k, 0, 0)

(***************************************************************************)
(* ImageService.compress_to_size (services/image_service.py:30-64)         *)
(***************************************************************************)
\* sizes in bytes an encoding of the image may have
EncodedSizes == {512, 1024, 1025, 2048, 2049}

Qualities == 1..MaxQuality

\* the encoders: the size of the JPEG never falls when the quality rises
Encoders ==
    {f \in [Qualities -> EncodedSizes] :
         \A a, b \in Qualities : a <= b => f[a] <= f[b]}

\* lines 47-58: the binary search, from its loop test on
RECURSIVE search(_, _, _, _, _)
search(min_quality, max_quality, best_quality, enc, target_bytes) ==
    IF min_quality <= max_quality
    THEN LET mid_quality == (min_quality + max_quality) \div 2
             size == enc[mid_quality]
         IN IF size <= target_bytes
            THEN search(mid_quality + 1, max_quality, mid_quality, enc,
                        target_bytes)
            ELSE search(min_quality, mid_quality - 1, best_quality, enc,
                        target_bytes)
    ELSE best_quality

\* compress_to_size (lines 30-64): the size of the file it writes
compress_to_size(enc, target_kb) ==
    LET target_bytes == target_kb * 1024
        best_quality == search(1, MaxQuality, MaxQuality, enc, target_bytes)
    IN enc[best_quality]

(***************************************************************************)
(* RateLimitMiddleware (core/middleware.py:13-51)                          *)
(***************************************************************************)
ClientIps == {"10.0.0.1", "10.0.0.2"}

\* lines 32 and 37: the length of the window, in seconds
WINDOW == 60

\* the seconds that pass between two requests
ClockSteps == {20, 59}

\* lines 30-33: the recorded times of the client that are younger than the
\* window
recent(times, t) == SelectSeq(times, LAMBDA x : t - x < WINDOW)

Max(a, b) == IF a >= b THEN a ELSE b

\* a dispatch that turns the client away only above the limit
dispatch_above_limit(reqs, ip, t, limit) ==
    LET kept == recent(reqs[ip], t)
    IN IF Len(kept) > limit
       THEN [requests |-> [reqs EXCEPT ![ip] = kept],
             forward |-> FALSE,
             status_code |-> 429,
             retry_after |-> Max(1, WINDOW - (t - kept[1]))]
       ELSE [requests |-> [reqs EXCEPT ![ip] = Append(kept, t)],
             forward |-> TRUE,
             status_code |-> 200,
             retry_after |-> 0]

\* RateLimitMiddleware.dispatch (lines 24-51) for a request of ip at time t
dispatch(reqs, ip, t, limit) ==
    LET kept == recent(reqs[ip], t)
    IN IF Len(kept) >= limit
       THEN [requests |-> [reqs EXCEPT ![ip] = kept],
             forward |-> FALSE,
             status_code |-> 429,
             retry_after |-> Max(1, WINDOW - (t - kept[1]))]
       ELSE [requests |-> [reqs EXCEPT ![ip] = Append(kept, t)],
             forward |-> TRUE,
             status_code |-> 200,
             retry_after |-> 0]

\* RateLimitMiddleware.__init__ (lines 19-22) with requests_per_minute = rpm
LInitWith(rpm) ==
    /\ requests_per_minute = rpm
    /\ requests = [ip \in ClientIps |-> <<>>]
    /\ current_time = 0
    /\ forwarded = [ip \in ClientIps |-> <<>>]
    /\ answer = [n |-> 0, ip |-> "none", status_code |-> 0, retry_after |-> 0]

LInit == \E rpm \in 1..MaxRpm : LInitWith(rpm)

\* compress_to_size is not called
CIdle ==
    /\ sizes = [q \in Qualities |-> 512]
    /\ target_size_kb = 1
    /\ written = -1

\* merge is not called
MIdle ==
    /\ page_counts = <<1>>
    /\ order = <<>>
    /\ merged = [done |-> FALSE, raised |-> FALSE, pages |-> 0]

(***************************************************************************)
(* PDFService.merge (services/pdf_service.py:71-95)                        *)
(***************************************************************************)
\* non-empty lists of inputs, each known by its page count
PageCountLists ==
    UNION {[1..n -> 1..MaxPages] : n \in 1..MaxInputs}

\* order arguments: lists of 0-based indices, some of them out of range
Orders ==
    UNION {[1..n -> 0..MaxInputs] : n \in 0..MaxInputs}

RECURSIVE Sum(_)
Sum(seq) == IF seq = <<>> THEN 0 ELSE Head(seq) + Sum(Tail(seq))

\* lines 79-82: the inputs in the order asked for
sorted_paths(inputs, ord) ==
    IF ord # <<>>
    THEN LET kept == SelectSeq(ord, LAMBDA i : i < Len(inputs))
         IN [k \in 1..Len(kept) |-> inputs[kept[k] + 1]]
    ELSE inputs

\* merge (lines 71-95): every page of every sorted path is added to the
\* writer; sorted_paths[0] (line 91) raises IndexError on an empty list
merge(inputs, ord) ==
    LET sorted == sorted_paths(inputs, ord)
    IN IF sorted = <<>>
       THEN [done |-> TRUE, raised |-> TRUE, pages |-> 0]
       ELSE [done |-> TRUE, raised |-> FALSE, pages |-> Sum(sorted)]

\* the services and the middleware at rest
XIdle == CIdle /\ MIdle /\ LInitWith(60)

\* a call of merge arrives: any inputs, any order argument
MInit ==
    /\ page_counts \in PageCountLists
    /\ order \in Orders
    /\ merged = [done |-> FALSE, raised |-> FALSE, pages |-> 0]

\* a call of compress_to_size arrives: any encoder, any target
CInit ==
    /\ sizes \in Encoders
    /\ target_size_kb \in 1..MaxTargetKb
    /\ written = -1

\* no transform request yet
AInit ==
    /\ request = [n |-> 0, kind |-> "none", file_ids |-> <<>>, task |-> "none"]
    /\ response = [type |-> "none", success |-> FALSE, download_url |-> None,
                   error_message |-> NoneStr]

\* main.py:48-54: the startup event creates the cleanup task
RInit == reaper = "sleeping"

\* no upload request in flight
UIdle ==
    /\ upload = UploadFile(<<>>, NoneStr, NoneStr)
    /\ allowed_types = {}
    /\ max_size = 0
    /\ verdict = ValidationResult(FALSE, NoneStr, NoneStr)
    /\ upc = "none"

\* an upload request arrives: any bytes, either upload endpoint, any limit
UInit ==
    /\ upload \in {UploadFile(d, f, c) :
                        d \in Uploads, f \in Filenames, c \in ContentTypes}
    /\ allowed_types \in {ALLOWED_PDF_TYPES, ALLOWED_IMAGE_TYPES}
    /\ max_size \in 0..MaxLen
    /\ verdict = ValidationResult(FALSE, NoneStr, NoneStr)
    /\ upc = "start"

SInit ==
    /\ now = 0
    /\ files = <<>>
    /\ disk = <<>>
    /\ next_id = 1
    /\ persisted_at = <<>>
    /\ caller_deleted = {}
    /\ swept_after = {}

\* time passes
Tick ==
    /\ now < MaxTime
    /\ now' = now + 1
    /\ UNCHANGED <<files, disk, next_id, persisted_at, caller_deleted,
                   swept_after>>
    /\ UNCHANGED not_s

\* nothing happens for longer than the TTL
Lapse ==
    /\ now + FILE_EXPIRY_MINUTES + 1 <= MaxTime
    /\ now' = now + FILE_EXPIRY_MINUTES + 1
    /\ UNCHANGED <<files, disk, next_id, persisted_at, caller_deleted,
                   swept_after>>
    /\ UNCHANGED not_s

\* FileHandler.save_temp_file (lines 108-136) returns: the file is written
\* at time now (its mtime), the record is built "gap" later
SaveTempFile ==
    /\ next_id <= NumFiles
    /\ now <= MaxSaveTime
    /\ \E content \in Contents, gap \in 0..MaxGap :
           LET id == next_id
               t == now + gap
               st == save_temp_file(Store,
                                    UploadFile(content, "shot.png", "image/png"),
                                    id, now, t)
           IN /\ disk' = st.disk
              /\ files' = st.files
              /\ now' = t
              /\ persisted_at' = persisted_at @@ (id :> t)
    /\ next_id' = next_id + 1
    /\ UNCHANGED <<caller_deleted, swept_after>>
    /\ UNCHANGED not_s

\* save_temp_file raises before the file exists: file.read() (line 114) or
\* open() (line 123) fails
SaveFailsEarly ==
    /\ next_id <= NumFiles
    /\ now <= MaxSaveTime
    /\ next_id' = next_id + 1
    /\ UNCHANGED <<now, files, disk, persisted_at, caller_deleted, swept_after>>
    /\ UNCHANGED not_s

\* save_temp_file raises in f.write (line 124), for example on a full disk:
\* open() has created the file, a prefix of the content may be in it, and
\* nothing removes it
SaveWriteFails ==
    /\ next_id <= NumFiles
    /\ now <= MaxSaveTime
    /\ \E content \in Contents :
           disk' = disk @@ (path_of(next_id) :>
                       [mtime |-> now, data |-> SubSeq(content, 1, Len(content) - 1)])
    /\ next_id' = next_id + 1
    /\ UNCHANGED <<now, files, persisted_at, caller_deleted, swept_after>>
    /\ UNCHANGED not_s

\* a request handler resolves an id: a read that changes nothing
GetTempFile ==
    /\ \E id \in FileIds : get_temp_file(files, disk, id) \in {None, path_of(id)}
    /\ UNCHANGED svars
    /\ UNCHANGED not_s

\* a caller deletes an id
DeleteTempFile ==
    /\ \E id \in FileIds :
           LET st == delete_temp_file(Store, id)
           IN /\ files' = st.files
              /\ disk' = st.disk
              /\ caller_deleted' = caller_deleted \cup {id}
    /\ UNCHANGED <<now, next_id, persisted_at, swept_after>>
    /\ UNCHANGED not_s

\* one tick of cleanup_task (lines 183-187): cleanup_expired runs to its end
\* without giving up control
CleanupExpired ==
    /\ LET st == cleanup_expired(Store, now)
       IN /\ files' = st.files
          /\ disk' = st.disk
    /\ swept_after' = swept_after \cup
           {id \in DOMAIN persisted_at : persisted_at[id] + FILE_EXPIRY_MINUTES < now}
    /\ UNCHANGED <<now, next_id, persisted_at, caller_deleted>>
    /\ UNCHANGED not_s

\* one iteration of cleanup_task (lines 183-187) in a directory where an
\* unlink may raise: an exception of cleanup_expired leaves the while loop
\* and ends the task
CleanupTick ==
    /\ reaper = "sleeping"
    /\ \E r \in Raising(Store, now) :
           LET st == cleanup_expired_raising(Store, now, r[1], r[2])
           IN /\ files' = st.files
              /\ disk' = st.disk
              /\ reaper' = IF st.raised THEN "dead" ELSE "sleeping"
              /\ swept_after' =
                     IF st.raised THEN swept_after
                     ELSE swept_after \cup
                              {id \in DOMAIN persisted_at :
                                   persisted_at[id] + FILE_EXPIRY_MINUTES < now}
    /\ UNCHANGED <<now, next_id, persisted_at, caller_deleted>>
    /\ UNCHANGED <<qvars, uvars, avars, xvars>>

\* something outside the store (an operator, another program) unlinks the
\* file of a record
FileVanishes ==
    /\ \E id \in DOMAIN files :
           /\ files[id].path \in DOMAIN disk
           /\ disk' = Without(disk, files[id].path)
    /\ UNCHANGED <<now, files, next_id, persisted_at, caller_deleted,
                   swept_after>>
    /\ UNCHANGED not_s

\* one request to a transform endpoint, from its first line to its answer:
\* nothing in it suspends, since the semaphore is free whenever a request
\* starts and the task does not await
TransformRequest ==
    /\ request.n < NumRequests
    /\ submitted < NumSubmissions
    /\ \E kind \in Endpoints, how \in EndHow :
       \E ids \in RequestIds(kind),
          msg \in IF how = "raise" THEN Messages ELSE {""} :
           LET r == transform(kind, ids, how, msg, Q, Store, submitted + 1, now)
           IN /\ Commit(r.q)
              /\ disk' = r.disk
              /\ submitted' = IF r.submitted THEN submitted + 1 ELSE submitted
              /\ request' = [n |-> request.n + 1, kind |-> kind,
                             file_ids |-> ids,
                             task |-> IF r.submitted THEN how ELSE "none"]
              /\ response' = r.response
    /\ UNCHANGED max_concurrent
    /\ UNCHANGED <<now, files, next_id, persisted_at, caller_deleted,
                   swept_after>>
    /\ UNCHANGED <<uvars, rvars, xvars>>

\* a request of some client reaches the middleware: dispatch runs up to
\* its answer or to call_next, with no await before
Dispatch ==
    /\ answer.n < MaxHandled
    /\ \E ip \in ClientIps :
           LET d == dispatch(requests, ip, current_time, requests_per_minute)
           IN /\ requests' = d.requests
              /\ forwarded' = IF d.forward
                              THEN [forwarded EXCEPT ![ip] = Append(@, current_time)]
                              ELSE forwarded
              /\ answer' = [n |-> answer.n + 1, ip |-> ip,
                            status_code |-> d.status_code,
                            retry_after |-> d.retry_after]
    /\ UNCHANGED <<requests_per_minute, current_time>>
    /\ UNCHANGED <<qvars, svars, uvars, rvars, avars, cvars, mvars>>

\* seconds pass
ClockAdvance ==
    /\ \E d \in ClockSteps :
           /\ current_time + d <= MaxClock
           /\ current_time' = current_time + d
    /\ UNCHANGED <<requests_per_minute, requests, forwarded, answer>>
    /\ UNCHANGED <<qvars, svars, uvars, rvars, avars, cvars, mvars>>

\* merge runs
Merge ==
    /\ ~merged.done
    /\ merged' = merge(page_counts, order)
    /\ UNCHANGED <<page_counts, order>>
    /\ UNCHANGED <<qvars, svars, uvars, rvars, avars, cvars, lvars>>

\* compress_to_size runs: it reads the image and writes its output
CompressToSize ==
    /\ written = -1
    /\ written' = compress_to_size(sizes, target_size_kb)
    /\ UNCHANGED <<sizes, target_size_kb>>
    /\ UNCHANGED <<qvars, svars, uvars, rvars, avars, mvars, lvars>>

\* a validation that leaves the upload where its read ended
ValidateUpload_consumes ==
    /\ upc = "start"
    /\ LET v == validate_file(upload, allowed_types, max_size)
       IN /\ verdict' = v.result
          /\ upload' = read(upload).upload
          /\ upc' = IF v.result.valid THEN "validated" ELSE "rejected"
    /\ UNCHANGED <<allowed_types, max_size>>
    /\ UNCHANGED svars
    /\ UNCHANGED not_u

\* upload_image / upload_pdf (api/image.py:118-128, api/pdf.py:58-77) up to
\* the verdict of validate_file
ValidateUpload ==
    /\ upc = "start"
    /\ LET v == validate_file(upload, allowed_types, max_size)
       IN /\ verdict' = v.result
          /\ upload' = v.upload
          /\ upc' = IF v.result.valid THEN "validated" ELSE "rejected"
    /\ UNCHANGED <<allowed_types, max_size>>
    /\ UNCHANGED svars
    /\ UNCHANGED not_u

\* the upload endpoint saves the validated upload and answers with its id
SaveUpload ==
    /\ upc = "validated"
    /\ next_id <= NumFiles
    /\ LET st == save_temp_file(Store, upload, next_id, now, now)
       IN /\ files' = st.files
          /\ disk' = st.disk
    /\ persisted_at' = persisted_at @@ (next_id :> now)
    /\ next_id' = next_id + 1
    /\ upload' = read(upload).upload
    /\ upc' = "saved"
    /\ UNCHANGED <<now, caller_deleted, swept_after>>
    /\ UNCHANGED <<allowed_types, max_size, verdict>>
    /\ UNCHANGED not_u

Finish == \E s \in Submissions : TaskFinish(s)

\* The runner on its own: the store stays as constructed.
Init == QInit /\ SInit /\ UIdle /\ RInit /\ AInit /\ XIdle

Next == Submit \/ Resume \/ Finish \/ CancelRunning \/ CancelWaiting

Spec == Init /\ [][Next]_vars

\* The runner without cancellation, where the loop runs every coroutine that
\* is ready and every started task terminates.
LiveNext == Submit \/ Resume \/ Finish

LiveSpec ==
    /\ Init
    /\ [][LiveNext]_vars
    /\ WF_vars(Resume)
    /\ \A s \in Submissions : WF_vars(TaskFinish(s))

\* The store and its reaper on their own: the global task_queue stays idle.
StoreInit == QInitWith(MAX_CONCURRENT_TASKS) /\ SInit /\ UIdle /\ RInit /\ AInit /\ XIdle

StoreNext ==
    \/ Tick
    \/ SaveTempFile
    \/ SaveFailsEarly
    \/ SaveWriteFails
    \/ GetTempFile
    \/ DeleteTempFile
    \/ CleanupExpired

StoreSpec == StoreInit /\ [][StoreNext]_vars

\* The store with its reaper and no client deleting: the directory may hold
\* a file of an earlier run, and an unlink may raise.  Time passes and the
\* reaper's task is scheduled whenever it is ready.
ReaperInit ==
    /\ QInitWith(MAX_CONCURRENT_TASKS)
    /\ now = 0
    /\ files = <<>>
    /\ disk \in {<<>>, Leftover}
    /\ next_id = 1
    /\ persisted_at = <<>>
    /\ caller_deleted = {}
    /\ swept_after = {}
    /\ UIdle
    /\ RInit
    /\ AInit
    /\ XIdle

ReaperNext == Tick \/ SaveTempFile \/ SaveWriteFails \/ CleanupTick

ReaperSpec ==
    /\ ReaperInit
    /\ [][ReaperNext]_vars
    /\ WF_vars(Tick)
    /\ WF_vars(CleanupTick)

\* Transform requests against a store that holds some uploads, with callers
\* deleting them.
ApiInit ==
    /\ QInitWith(MAX_CONCURRENT_TASKS)
    /\ now = 0
    /\ \E k \in 0..NumFiles :
           /\ files = saved(k).files
           /\ disk = saved(k).disk
           /\ next_id = k + 1
           /\ persisted_at = [id \in 1..k |-> 0]
    /\ caller_deleted = {}
    /\ swept_after = {}
    /\ UIdle
    /\ RInit
    /\ AInit
    /\ XIdle

ApiNext == TransformRequest \/ DeleteTempFile

ApiSpec == ApiInit /\ [][ApiNext]_vars

\* One call of compress_to_size.
CompressInit ==
    /\ QInitWith(MAX_CONCURRENT_TASKS) /\ SInit /\ UIdle /\ RInit /\ AInit
    /\ CInit
    /\ MIdle
    /\ LInitWith(60)

CompressNext == CompressToSize

CompressSpec == CompressInit /\ [][CompressNext]_vars

\* Transform requests while time passes and the reaper sweeps; nothing but
\* the sweep calls delete_temp_file.
ServeNext == TransformRequest \/ Lapse \/ CleanupExpired

ServeSpec == ApiInit /\ [][ServeNext]_vars

\* Lookups in a store whose files are also removed from outside: uploads,
\* deletions by callers, sweeps, and files that vanish.
LookupNext ==
    \/ SaveTempFile
    \/ GetTempFile
    \/ DeleteTempFile
    \/ FileVanishes
    \/ Lapse
    \/ CleanupExpired

LookupSpec == ApiInit /\ [][LookupNext]_vars

\* Requests of two clients through the rate limiter.
LimitInit ==
    /\ QInitWith(MAX_CONCURRENT_TASKS) /\ SInit /\ UIdle /\ RInit /\ AInit
    /\ CIdle
    /\ MIdle
    /\ LInit

LimitNext == Dispatch \/ ClockAdvance

LimitSpec == LimitInit /\ [][LimitNext]_vars

\* One call of merge.
MergeInit ==
    /\ QInitWith(MAX_CONCURRENT_TASKS) /\ SInit /\ UIdle /\ RInit /\ AInit
    /\ CIdle
    /\ MInit
    /\ LInitWith(60)

MergeNext == Merge

MergeSpec == MergeInit /\ [][MergeNext]_vars

\* One upload request against a fresh store.
UploadInit == QInitWith(MAX_CONCURRENT_TASKS) /\ SInit /\ UInit /\ RInit /\ AInit /\ XIdle

UploadNext == ValidateUpload \/ SaveUpload

UploadSpec == UploadInit /\ [][UploadNext]_vars

(***************************************************************************)
(* Properties of the runner                                                *)
(***************************************************************************)
\* submit calls entered and not yet returned or raised
Outstanding == Cardinality({s \in Submissions : pc[s] \in {"waiting", "running"}})

\* waiters that were handed a slot by _wake_up_next and have not resumed yet
Handed == Cardinality({s \in Submissions : pc[s] = "waiting" /\ fut[s] = "result"})

\* slots not held by a running task
FreeSlots == sem_value + Handed

\* C1: active_count stays within 0..max_concurrent in every state, and every
\* slot is either free, handed to a woken waiter, or held by an active task:
\* a slot is released only after active_count went down.
C1_ActiveWithinBound ==
    /\ 0 <= active_tasks
    /\ active_tasks <= max_concurrent
    /\ sem_value >= 0
    /\ active_tasks + FreeSlots = max_concurrent

C1_Witness ==
    /\ active_tasks = max_concurrent
    /\ max_concurrent > 1
    /\ \E s \in Submissions : pc[s] = "waiting"
    /\ \E s \in Submissions : task_exit[s] = "raise"
    /\ \E s \in Submissions : task_exit[s] = "return"

\* C2: queued_count + active_count equals the number of submit calls that
\* were entered and have not yet returned or raised.
C2_CountsMatchOutstanding == queued_tasks + active_tasks = Outstanding

\* C3: queued_count is never negative.
C3_QueuedNonNegative == queued_tasks >= 0

\* C4: tasks start in the order their submit calls were entered (submissions
\* are numbered in that order).
C4_FifoAdmission ==
    \A i, j \in 1..Len(started) : i < j => started[i] < started[j]

C4_Witness ==
    /\ max_concurrent = 1
    /\ started = <<1, 2, 3>>
    /\ pc[1] = "returned"
    /\ pc[2] = "returned"
    /\ pc[3] = "running"

\* C5: with finitely many submissions and terminating tasks, the runner
\* eventually settles with every entered submission finished (returned, or
\* raised its task's error) and its task run exactly once, also after other
\* tasks failed.
C5_EveryTaskRunsOnce ==
    <>[](\A s \in Submissions :
            \/ pc[s] = "new" /\ runs[s] = 0
            \/ pc[s] \in {"returned", "raised"} /\ runs[s] = 1)

C5_Witness ==
    /\ max_concurrent = 1
    /\ task_exit[1] = "raise"
    /\ outcome[2] = <<"return", 2>>
    /\ outcome[3] = <<"raise", 3>>
    /\ runs[2] = 1

\* C6: a task that raised was invoked once and its own error is what submit
\* raised; submit raises nothing but the error of its own task.
C6_ErrorPropagates ==
    \A s \in Submissions :
        /\ task_exit[s] = "raise" => (outcome[s] = <<"raise", s>> /\ runs[s] = 1)
        /\ outcome[s][1] = "raise" => (task_exit[s] = "raise" /\ outcome[s][2] = s)
        /\ task_exit[s] = "return" => outcome[s] = <<"return", s>>

C6_Witness ==
    /\ outcome[3] = <<"raise", 3>>
    /\ \E s \in Submissions : pc[s] = "waiting"

\* C7: when a submission is cancelled while it waits for a slot, queued_count
\* goes down by one and active_count and the free slots stay as they were.
C7_CancelledWaiterUnwinds ==
    [][\A s \in Submissions :
          (pc[s] = "waiting" /\ pc'[s] = "cancelled") =>
              /\ queued_tasks' = queued_tasks - 1
              /\ active_tasks' = active_tasks
              /\ FreeSlots' = FreeSlots]_vars


(***************************************************************************)
(* Properties of the store                                                 *)
(***************************************************************************)
\* C8: get_temp_file answers not-found for every record whose expires_at is
\* before the current time, swept or not.
C8_ExpiredNotServed ==
    \A id \in DOMAIN files :
        files[id].expires_at < now => get_temp_file(files, disk, id) = None

\* C9: a file persisted at T and not deleted by a caller resolves at every
\* time before T + TTL whatever sweeps ran, does not resolve once a sweep ran
\* after T + TTL, and its expires_at stays T + TTL.
C9_ResolvableUntilExpiry ==
    \A id \in DOMAIN persisted_at \ caller_deleted :
        /\ now < persisted_at[id] + FILE_EXPIRY_MINUTES =>
               get_temp_file(files, disk, id) = path_of(id)
        /\ id \in swept_after => get_temp_file(files, disk, id) = None
        /\ id \in DOMAIN files =>
               files[id].expires_at = persisted_at[id] + FILE_EXPIRY_MINUTES

\* C10: when save_temp_file is over, the new id has both its index entry and
\* its file if the call returned, and neither of them if the call raised.
C10_SaveIsAtomic ==
    [][next_id' # next_id =>
          IF next_id \in DOMAIN persisted_at'
          THEN next_id \in DOMAIN files' /\ path_of(next_id) \in DOMAIN disk'
          ELSE next_id \notin DOMAIN files' /\ path_of(next_id) \notin DOMAIN disk'
      ]_vars


(***************************************************************************)
(* Properties of uploads                                                   *)
(***************************************************************************)
\* C11: right after save_temp_file returned, get_temp_file on the new id
\* gives its path, the file at that path holds exactly the uploaded bytes,
\* and the record's size is their length.
C11_SaveThenGetRoundTrip ==
    upc = "saved" =>
        LET id == next_id - 1
        IN /\ get_temp_file(files, disk, id) = path_of(id)
           /\ disk[path_of(id)].data = upload.data
           /\ files[id].size = Len(upload.data)

C11_Witness ==
    /\ upc = "saved"
    /\ Len(upload.data) = 2
    /\ files[1].size = 2

\* C12: validate_file gives TooLarge exactly when the content is longer than
\* max_size, whatever its type; else UnknownType when no type is detected;
\* else DisallowedType with the detected type when it is not allowed; else
\* valid with the detected type.
C12_ValidationOrder ==
    upc \in {"validated", "rejected"} =>
        LET n == Len(upload.data)
            ty == detect_file_type(upload.data)
        IN /\ n > max_size =>
                  verdict = ValidationResult(FALSE, NoneStr, "TooLarge")
           /\ (n <= max_size /\ ty = NoneStr) =>
                  verdict = ValidationResult(FALSE, NoneStr, "UnknownType")
           /\ (n <= max_size /\ ty # NoneStr /\ ty \notin allowed_types) =>
                  verdict = ValidationResult(FALSE, ty, "DisallowedType")
           /\ (n <= max_size /\ ty # NoneStr /\ ty \in allowed_types) =>
                  verdict = ValidationResult(TRUE, ty, NoneStr)

C12_Witness ==
    /\ upc = "rejected"
    /\ Len(upload.data) = max_size + 1
    /\ detect_file_type(upload.data) \in allowed_types
    /\ verdict.error_message = "TooLarge"

(***************************************************************************)
(* Properties of deletion and of the sweep                                 *)
(***************************************************************************)
\* C13: delete_temp_file on an id with a record removes the record and the
\* file and returns true; a second delete returns false and changes nothing;
\* deleting an id that was never persisted returns false and changes nothing.
C13_DeleteThenDeleteAgain ==
    \A id \in FileIds :
        LET first == delete_temp_file(Store, id)
            second == delete_temp_file(first, id)
        IN /\ id \in DOMAIN files =>
                  /\ first.ret = TRUE
                  /\ id \notin DOMAIN first.files
                  /\ path_of(id) \notin DOMAIN first.disk
           /\ second.ret = FALSE
           /\ second.files = first.files
           /\ second.disk = first.disk
           /\ id \notin DOMAIN persisted_at =>
                  /\ first.ret = FALSE
                  /\ first.files = files
                  /\ first.disk = disk

\* C14: the number cleanup_expired returns is the number of files the call
\* removed from the directory, index pass and directory pass together.
C14_SweepCountsAllRemovals ==
    LET st == cleanup_expired(Store, now)
    IN st.ret = Cardinality(DOMAIN disk) - Cardinality(DOMAIN st.disk)

\* C15: when cleanup_expired completes without an exception, no file of the
\* directory is older than the TTL, indexed or not, and no record with
\* expires_at < now is left in the index.
C15_CompletedSweepLeavesNothingOld ==
    \A r \in Raising(Store, now) :
        LET st == cleanup_expired_raising(Store, now, r[1], r[2])
        IN ~st.raised =>
               /\ over_age(st.disk, now) = {}
               /\ expired_ids(st.files, now) = {}

\* sweeps have completed after the TTL of every file that was persisted, and
\* nothing is left in the index or in the directory
C15_Witness ==
    /\ reaper = "sleeping"
    /\ persisted_at # <<>>
    /\ swept_after = DOMAIN persisted_at
    /\ next_id > NumFiles
    /\ files = <<>>
    /\ disk = <<>>

\* C16: an unlink that raises does not end the sweep: when cleanup_expired is
\* over, every expired record is gone from the index and the only over-age
\* files left are those whose own unlink raised.
C16_FailureDoesNotAbortSweep ==
    \A r \in Raising(Store, now) :
        LET st == cleanup_expired_raising(Store, now, r[1], r[2])
        IN /\ expired_ids(st.files, now) = {}
           /\ over_age(st.disk, now) \subseteq r[1]

\* C17: cleanup_task goes back to sleep after every tick, whatever happened
\* in the sweep, so that another sweep always follows.
C17_ReaperKeepsSweeping == []<>(reaper = "sleeping")

\* C18: every persisted file whose expires_at has passed is eventually gone
\* from the index and from the disk, with no request of a client.
C18_ExpiredEventuallyReclaimed ==
    \A id \in FileIds :
        (id \in DOMAIN files /\ files[id].expires_at < now)
            ~> (id \notin DOMAIN files /\ path_of(id) \notin DOMAIN disk)

(***************************************************************************)
(* Properties of the transform endpoints                                   *)
(***************************************************************************)
\* C19: a transform request one of whose file ids does not resolve answers
\* "File not found" and never reaches the runner: queued_count, active_count
\* and the semaphore are as before and no task was invoked.
C19_NotFoundSkipsRunner ==
    [][(/\ request'.n # request.n
        /\ \E i \in DOMAIN request'.file_ids :
               get_temp_file(files, disk, request'.file_ids[i]) = None)
       => /\ response' = ProcessResponse(FALSE, None, "File not found")
          /\ queued_tasks' = queued_tasks
          /\ active_tasks' = active_tasks
          /\ sem_value' = sem_value
          /\ submitted' = submitted
          /\ runs' = runs
          /\ started' = started]_vars

\* a merge whose first id resolves and whose second does not, after an
\* earlier request had its task run
C19_Witness ==
    /\ request.kind = "pdf.merge"
    /\ request.task = "none"
    /\ get_temp_file(files, disk, request.file_ids[1]) # None
    /\ get_temp_file(files, disk, request.file_ids[2]) = None
    /\ response = ProcessResponse(FALSE, None, "File not found")
    /\ submitted = 1
    /\ runs[1] = 1

\* C20: when the task of a transform request failed, the endpoint answers
\* success = false with a non-empty error message; it answers success = true
\* only when the task returned and its output file exists.
C20_FailureIsReported ==
    [][request'.n # request.n =>
          /\ request'.task = "raise" =>
                 /\ response'.type = "ProcessResponse"
                 /\ response'.success = FALSE
                 /\ response'.error_message \notin {NoneStr, ""}
          /\ response'.success =>
                 /\ request'.task = "return"
                 /\ response'.download_url \in DOMAIN disk']_vars

(***************************************************************************)
(* Further properties of uploads                                           *)
(***************************************************************************)
\* C21: the detected type, the verdict of validate_file and the mime_type of
\* the stored record are those of any other upload with the same bytes,
\* whatever its file name and its declared content type.
C21_TypeFromBytesOnly ==
    upc \in {"validated", "rejected", "saved"} =>
        \A f \in Filenames, c \in ContentTypes :
            LET other == UploadFile(upload.data, f, c)
                empty == [files |-> <<>>, disk |-> <<>>, ret |-> 0]
                v == validate_file(other, allowed_types, max_size)
            IN /\ v.result = verdict
               /\ upc = "saved" =>
                      /\ save_temp_file(empty, v.upload, 1, now, now).files[1].mime_type
                             = files[1].mime_type
                      /\ files[1].mime_type = detect_file_type(upload.data)

\* PNG bytes uploaded under a .jpg name are recorded as image/png
C21_Witness ==
    /\ upc = "saved"
    /\ upload.filename = "shot.jpg"
    /\ upload.content_type = "application/pdf"
    /\ files[1].mime_type = "image/png"
    /\ files[1].original_name = "shot.jpg"

\* C26: validate_file leaves the upload at position 0 with its bytes, and the
\* index and the directory as they were; the save_temp_file that follows it
\* on the same upload writes all of the uploaded bytes.
C26_ValidateIsPeek ==
    [][/\ (upc = "start" /\ upc' # "start") =>
              /\ upload'.pos = 0
              /\ upload'.data = upload.data
              /\ files' = files
              /\ disk' = disk
       /\ (upc = "validated" /\ upc' = "saved") =>
              /\ upload.pos = 0
              /\ disk'[path_of(next_id)].data = upload.data]_vars

\* an upload of the greatest length was validated, then saved whole
C26_Witness ==
    /\ upc = "saved"
    /\ verdict.valid
    /\ Len(upload.data) >= 3
    /\ disk[path_of(1)].data = upload.data

(***************************************************************************)
(* Properties of the services                                              *)
(***************************************************************************)
\* C22: the file compress_to_size writes is at most target_size_kb * 1024
\* bytes, for every encoder whose size does not fall when the quality rises.
C22_OutputWithinTarget ==
    written # -1 => written <= target_size_kb * 1024

\* C23: merge writes one PDF whose page count is the sum of the page counts
\* of all its inputs, whatever the order argument.
C23_MergeKeepsAllPages ==
    merged.done => (~merged.raised /\ merged.pages = Sum(page_counts))

(***************************************************************************)
(* Further properties of the runner                                        *)
(***************************************************************************)
\* C24: between two suspension points a submission moves through the counts
\* one place at a time: entering submit and waiting adds it to queued_count
\* alone; being admitted without a wait adds it to active_count alone; being
\* admitted after a wait takes it from queued_count and adds it to
\* active_count in the same uninterrupted run.
C24_CountedInExactlyOne ==
    [][\A s \in Submissions :
          /\ (pc[s] = "new" /\ pc'[s] = "waiting") =>
                 /\ queued_tasks' = queued_tasks + 1
                 /\ active_tasks' = active_tasks
          /\ (pc[s] = "new" /\ pc'[s] = "running") =>
                 /\ queued_tasks' = queued_tasks
                 /\ active_tasks' = active_tasks + 1
          /\ (pc[s] = "waiting" /\ pc'[s] = "running") =>
                 /\ queued_tasks' = queued_tasks - 1
                 /\ active_tasks' = active_tasks + 1]_vars

\* with one slot: the first task is over, the second holds the slot and the
\* third waits for it
C24_Witness ==
    /\ max_concurrent = 1
    /\ pc[1] = "returned"
    /\ pc[2] = "running"
    /\ pc[3] = "waiting"
    /\ fut[3] = "pending"
    /\ queued_tasks = 1
    /\ active_tasks = 1

(***************************************************************************)
(* Further properties of the store                                         *)
(***************************************************************************)
\* C25: get_temp_file gives a path only for an id that is in the index and
\* whose file is on disk, and that path is the record's; for a record whose
\* file has vanished it gives not-found.
C25_ResolveNeedsRecordAndFile ==
    \A id \in FileIds :
        LET r == get_temp_file(files, disk, id)
        IN /\ r # None =>
                  /\ id \in DOMAIN files
                  /\ r = files[id].path
                  /\ r \in DOMAIN disk
           /\ (id \in DOMAIN files /\ files[id].path \notin DOMAIN disk) =>
                  r = None

\* one record has its file, another has lost it to something outside the
\* store before its expiry
C25_Witness ==
    /\ swept_after = {}
    /\ caller_deleted = {}
    /\ DOMAIN files = {1, 2}
    /\ get_temp_file(files, disk, 1) = path_of(1)
    /\ path_of(2) \notin DOMAIN disk
    /\ get_temp_file(files, disk, 2) = None

\* C27: whenever a step removes the file of an indexed record from the
\* disk (delete_temp_file, or either pass of cleanup_expired), the record is
\* gone from the index after that step.
C27_RemovalDropsIndexEntry ==
    [][\A id \in DOMAIN files :
          (files[id].path \in DOMAIN disk /\ files[id].path \notin DOMAIN disk')
              => id \notin DOMAIN files']_vars

(***************************************************************************)
(* Further properties of the transform endpoints                           *)
(***************************************************************************)
\* C28: a transform task writes to a path named after the id of its input,
\* so a request that succeeds never replaces the output another request
\* made of different uploads, and the reference it returns leads to what was
\* made of its own inputs.
C28_OutputsNeverCollide ==
    [][(request'.n # request.n /\ response'.success) =>
          LET p == response'.download_url
          IN /\ p[2] \in {request'.file_ids[i] : i \in DOMAIN request'.file_ids}
             /\ disk'[p].data = <<"made of", request'.file_ids>>
             /\ p \in DOMAIN disk => disk[p].data = disk'[p].data]_vars

InWindow(ip, w) ==
    Len(SelectSeq(forwarded[ip], LAMBDA x : w <= x /\ x < w + WINDOW))

\* C30: for every client at most requests_per_minute requests are forwarded
\* in any window of 60 seconds; a request over the limit is answered 429
\* with retry_after >= 1, is not forwarded and is not recorded; a request of
\* one client leaves the record of every other client alone.
C30_RateLimited ==
    /\ [](\A ip \in ClientIps : \A w \in 0..MaxClock :
              InWindow(ip, w) <= requests_per_minute)
    /\ [][answer'.n # answer.n =>
             /\ \A other \in ClientIps \ {answer'.ip} :
                    /\ requests'[other] = requests[other]
                    /\ forwarded'[other] = forwarded[other]
             /\ answer'.status_code = 429 =>
                    /\ answer'.retry_after >= 1
                    /\ forwarded' = forwarded
                    /\ requests'[answer'.ip] =
                           recent(requests[answer'.ip], current_time)
             /\ answer'.status_code # 429 =>
                    /\ answer'.status_code = 200
                    /\ Len(recent(requests[answer'.ip], current_time))
                           < requests_per_minute]_vars

\* one client is turned away at its limit of two while the other, seen in
\* the same second, is forwarded; an earlier time has left the window
C30_Witness ==
    /\ requests_per_minute = 2
    /\ answer.status_code = 429
    /\ answer.ip = "10.0.0.1"
    /\ answer.retry_after = 1
    /\ Len(forwarded["10.0.0.1"]) = 2
    /\ Len(forwarded["10.0.0.2"]) = 1
    /\ forwarded["10.0.0.2"][1] = current_time

=============================================================================
